---- MODULE Spec2Model ----
(***************************************************************************)
(* History synchronisation and statistics engine (DataManager) of the      *)
(* lottery tracker: merge by period, monthly backfill, rolling daily       *)
(* window with retention, frequency index, CSV import, snapshot file.      *)
(*                                                                         *)
(* Python values are modelled as tagged records, so that values of         *)
(* different Python types stay distinct:                                   *)
(*   a string of digits   [t |-> "str", s |-> <<1, 0>>]      ("10")        *)
(*   an integer           [t |-> "int", n |-> 10]                          *)
(*   a date string        [t |-> "str", sep |-> "-", y, m, d]              *)
(*   a list               [t |-> "list", v |-> <<...>>]                    *)
(*   a key that is absent [t |-> "missing"]                                *)
(***************************************************************************)
EXTENDS Integers, Sequences, FiniteSets, TLC

VARIABLES
    config,     \* self.config: the profile of this DataManager
    data,       \* self.data: the in-memory record list
    stats,      \* self.stats: the frequency index exposed by get_sorted_stats
    disk,       \* the snapshot file history_<key>.json
    today,      \* the clock: the calendar day datetime.now() falls on
    pc,         \* "idle", the loop a running fetch_all_history is in, or "returned"
    pointer,    \* current_pointer of _fetch_normal_history
    iday,       \* loop variable i of _fetch_high_freq_history
    fetched,    \* the requests issued by the sync in progress / last finished
    progress,   \* number of progress_callback calls of that sync
    ret,        \* how the operation ended: its return value, or a raise
    op,         \* the operation in progress or just ended
    start,      \* the start point the backfill sync computed
    unit,       \* how the last request of the sync went: "failed" or "ok"
    got,        \* str(period) of the records the responses (the file) carried
    arg,        \* the batch given to the last direct call of _merge_data
    prev,       \* the direct call of _merge_data before the last one
    btn_update, \* the host's update button: isEnabled()
    gui,        \* what the host's GUI thread runs: "events" or "import"
    finalized   \* the runs of _finalize_data in the operation: how each save went

\* what an operation leaves for its caller and for the properties
log == <<fetched, progress, ret, op, start, unit, got, finalized>>
\* used by the specifications of the pure functions only
call == <<arg, prev>>

\* the host window (UniversalLotteryTab)
host == <<btn_update, gui>>

vars == <<config, data, stats, disk, today, pc, pointer, iday, log, call, host>>

(***************************************************************************)
(* Bounds of the model.                                                    *)
(***************************************************************************)
\* Largest keep_days of a rolling-window profile (config.py sets 5).
MaxKeepDays == 2
\* Records kept per retention day: stands for the literal 210 of
\* _fetch_high_freq_history, scaled down so that a store can exceed the limit.
DrawsPerDay == 1
\* Longest list of draw objects a response carries, longest CSV file in rows.
MaxBatch == 2

(***************************************************************************)
(* Python strings of digits, str() and string comparison.                  *)
(***************************************************************************)
Missing == [t |-> "missing"]

RECURSIVE IntToStr(_)
\* str(n) for a non-negative int: its decimal digits
IntToStr(n) == IF n < 10 THEN <<n>> ELSE Append(IntToStr(n \div 10), n % 10)

\* str(x['period'])
PyStr(p) == IF p.t = "int" THEN IntToStr(p.n) ELSE p.s

RECURSIVE StrLess(_, _)
\* a < b on Python strings: lexicographic, a proper prefix is smaller
StrLess(a, b) ==
    IF b = <<>> THEN FALSE
    ELSE IF a = <<>> THEN TRUE
    ELSE IF Head(a) # Head(b) THEN Head(a) < Head(b)
    ELSE StrLess(Tail(a), Tail(b))

\* the sort key of _finalize_data and of the retention sort
SortKey(x) == PyStr(x.period)

RECURSIVE InsertDesc(_, _)
\* x placed after every element whose key is >= its own (stable, descending)
InsertDesc(sorted, x) ==
    IF sorted = <<>> THEN <<x>>
    ELSE IF StrLess(SortKey(Head(sorted)), SortKey(x))
         THEN <<x>> \o sorted
         ELSE <<Head(sorted)>> \o InsertDesc(Tail(sorted), x)

\* a sort that leaves the list as it is
SortDesc_Unsorted(s) == s

RECURSIVE SortDesc(_)
\* list.sort(key=lambda x: str(x['period']), reverse=True)
SortDesc(s) ==
    IF s = <<>> THEN <<>>
    ELSE InsertDesc(SortDesc(SubSeq(s, 1, Len(s) - 1)), s[Len(s)])

(***************************************************************************)
(* The calendar: datetime, timedelta, strptime, replace.                   *)
(***************************************************************************)
IsLeap(y) == (y % 4 = 0 /\ y % 100 # 0) \/ y % 400 = 0

DaysInMonth(y, m) ==
    IF m = 2 THEN (IF IsLeap(y) THEN 29 ELSE 28)
    ELSE IF m \in {4, 6, 9, 11} THEN 30 ELSE 31

Date(y, m, d) == [y |-> y, m |-> m, d |-> d]

DateLess(a, b) ==
    \/ a.y < b.y
    \/ a.y = b.y /\ a.m < b.m
    \/ a.y = b.y /\ a.m = b.m /\ a.d < b.d

DateLeq(a, b) == ~DateLess(b, a)

\* dt + timedelta(days=1)
NextDay(dt) ==
    IF dt.d < DaysInMonth(dt.y, dt.m) THEN Date(dt.y, dt.m, dt.d + 1)
    ELSE IF dt.m < 12 THEN Date(dt.y, dt.m + 1, 1)
    ELSE Date(dt.y + 1, 1, 1)

\* dt - timedelta(days=1)
PrevDay(dt) ==
    IF dt.d > 1 THEN Date(dt.y, dt.m, dt.d - 1)
    ELSE IF dt.m > 1 THEN Date(dt.y, dt.m - 1, DaysInMonth(dt.y, dt.m - 1))
    ELSE Date(dt.y - 1, 12, 31)

RECURSIVE DaysBefore(_, _)
\* dt - timedelta(days=i)
DaysBefore(dt, i) == IF i = 0 THEN dt ELSE DaysBefore(PrevDay(dt), i - 1)

\* datetime.strptime(s[:10], "%Y-%m-%d"): a date, or a raise
StrpDate(s) ==
    IF s.t = "str" /\ s.sep = "-" /\ s.m \in 1..12
       /\ s.d \in 1..DaysInMonth(s.y, s.m)
    THEN [ok |-> TRUE, dt |-> Date(s.y, s.m, s.d)]
    ELSE [ok |-> FALSE, dt |-> Date(0, 0, 0)]

\* datetime.strptime(config['start_date'], "%Y-%m"): the first of that month
StrpMonth(sd) == Date(sd.y, sd.m, 1)

\* current_pointer.replace(...) to the next month, keeping the day: a raise
\* (ValueError) when that month has no such day
AdvancePointer(p) ==
    LET y2 == IF p.m = 12 THEN p.y + 1 ELSE p.y
        m2 == IF p.m = 12 THEN 1 ELSE p.m + 1
    IN  IF p.d <= DaysInMonth(y2, m2)
        THEN [ok |-> TRUE, dt |-> Date(y2, m2, p.d)]
        ELSE [ok |-> FALSE, dt |-> p]

\* strftime("%Y-%m") and strftime("%Y-%m-%d"): the request parameter
MonthParam(dt) == [param |-> "month", y |-> dt.y, m |-> dt.m, d |-> 0]
DateParam(dt) == [param |-> "date", y |-> dt.y, m |-> dt.m, d |-> dt.d]

(***************************************************************************)
(* _fetch_from_api: one request, any failure degrades to [].               *)
(*                                                                         *)
(* What requests.get can produce:                                          *)
(*   [t |-> "exception"]                       transport error, timeout    *)
(*   [t |-> "response", status, body]          an HTTP response            *)
(* body, as resp.json() sees it:                                           *)
(*   [t |-> "unparseable"]                     json() raises               *)
(*   [t |-> "list"]                            a JSON array: no .get       *)
(*   [t |-> "dict", content |-> c]             a JSON object; c is Missing,*)
(*        [t |-> "list", v |-> items], [t |-> "int", n |-> k], or          *)
(*        [t |-> "dict", value |-> x], x the value under config['api_key'] *)
(***************************************************************************)
EmptyList == [t |-> "list", v |-> <<>>]

FetchFromApi(resp) ==
    IF resp.t = "exception" THEN EmptyList
    ELSE IF resp.status # 200 THEN EmptyList
    ELSE IF resp.body.t # "dict" THEN EmptyList
    ELSE LET content == resp.body.content
         IN  IF content.t = "missing" THEN EmptyList
             ELSE IF content.t = "dict"
                  THEN (IF content.value.t = "missing" THEN EmptyList
                        ELSE content.value)
             ELSE IF content.t = "list" THEN content
             ELSE EmptyList

(***************************************************************************)
(* _merge_data: append the candidates whose str(period) is not among the   *)
(* periods the store held when the call began.                             *)
(***************************************************************************)
\* `not new_items`
Falsy(x) ==
    \/ x.t = "missing"
    \/ x.t = "list" /\ x.v = <<>>
    \/ x.t = "int" /\ x.n = 0

ExistingPeriods(d) == { PyStr(d[k].period) : k \in 1..Len(d) }

RECURSIVE MergeLoop(_, _, _, _)
\* the for loop; item['period'] of an object without that key raises
MergeLoop(d, existing, items, count) ==
    IF items = <<>> THEN [data |-> d, count |-> count, raised |-> FALSE]
    ELSE LET item == Head(items)
         IN  IF item.period.t = "missing"
             THEN [data |-> d, count |-> count, raised |-> TRUE]
             ELSE IF PyStr(item.period) \notin existing
             THEN MergeLoop(Append(d, item), existing, Tail(items), count + 1)
             ELSE MergeLoop(d, existing, Tail(items), count)

\* a merge that forgets the existence check: every candidate is appended
MergeData_AppendAll(d, new_items) ==
    IF Falsy(new_items) THEN [data |-> d, count |-> 0, raised |-> FALSE]
    ELSE IF new_items.t # "list"
    THEN [data |-> d, count |-> 0, raised |-> TRUE]
    ELSE MergeLoop(d, {}, new_items.v, 0)

\* a merge that builds the list anew from the candidates: what the store held
\* is gone
MergeData_Overwrites(d, new_items) ==
    IF Falsy(new_items) THEN [data |-> d, count |-> 0, raised |-> FALSE]
    ELSE IF new_items.t # "list"
    THEN [data |-> d, count |-> 0, raised |-> TRUE]
    ELSE MergeLoop(<<>>, ExistingPeriods(d), new_items.v, 0)

MergeData(d, new_items) ==
    IF Falsy(new_items) THEN [data |-> d, count |-> 0, raised |-> FALSE]
    ELSE IF new_items.t # "list"
    THEN [data |-> d, count |-> 0, raised |-> TRUE]
    ELSE MergeLoop(d, ExistingPeriods(d), new_items.v, 0)

(***************************************************************************)
(* calculate_statistics: Counter, update, most_common.                     *)
(* A Counter is the sequence of its (number, count) pairs in insertion     *)
(* order.                                                                  *)
(***************************************************************************)
Pair(n, c) == [num |-> n, cnt |-> c]

\* counter[n] += 1
CounterAdd(c, n) ==
    IF \E k \in 1..Len(c) : c[k].num = n
    THEN [k \in 1..Len(c) |->
             IF c[k].num = n THEN Pair(n, c[k].cnt + 1) ELSE c[k]]
    ELSE Append(c, Pair(n, 1))

RECURSIVE CounterUpdate(_, _)
\* counter.update(nums)
CounterUpdate(c, nums) ==
    IF nums = <<>> THEN c
    ELSE CounterUpdate(CounterAdd(c, Head(nums)), Tail(nums))

RECURSIVE InsertByCount(_, _)
InsertByCount(sorted, x) ==
    IF sorted = <<>> THEN <<x>>
    ELSE IF Head(sorted).cnt < x.cnt THEN <<x>> \o sorted
    ELSE <<Head(sorted)>> \o InsertByCount(Tail(sorted), x)

RECURSIVE MostCommon(_)
\* counter.most_common(): by count, descending, ties in insertion order
MostCommon(c) ==
    IF c = <<>> THEN <<>>
    ELSE InsertByCount(MostCommon(SubSeq(c, 1, Len(c) - 1)), c[Len(c)])

\* raw_nums[:-1]
AllButLast(s) == SubSeq(s, 1, Len(s) - 1)

\* `sp and int(sp) > 0`
HasSuperPrize(sp) == sp.t = "int" /\ sp.n # 0 /\ sp.n > 0

RECURSIVE CountLoop(_, _, _, _)
\* the loop over self.data; a drawNumberSize that is no list raises
CountLoop(cfg, items, prim, spec) ==
    IF items = <<>> THEN [raised |-> FALSE, primary |-> prim, special |-> spec]
    ELSE LET item == Head(items)
             raw_nums == item.drawNumberSize
         IN  IF Falsy(raw_nums) THEN CountLoop(cfg, Tail(items), prim, spec)
             ELSE IF raw_nums.t # "list"
             THEN [raised |-> TRUE, primary |-> prim, special |-> spec]
             ELSE IF cfg.is_high_frequency
             THEN CountLoop(cfg, Tail(items), CounterUpdate(prim, raw_nums.v),
                      IF HasSuperPrize(item.superPrizeNo)
                      THEN CounterAdd(spec, item.superPrizeNo.n) ELSE spec)
             ELSE IF cfg.has_special
             THEN CountLoop(cfg, Tail(items),
                      CounterUpdate(prim, AllButLast(raw_nums.v)),
                      CounterAdd(spec, raw_nums.v[Len(raw_nums.v)]))
             ELSE CountLoop(cfg, Tail(items),
                      CounterUpdate(prim, raw_nums.v), spec)

\* self.stats = {}
NoStats == [set |-> FALSE, primary |-> <<>>, special |-> <<>>]

\* the new self.stats, or the old one when the computation raises
CalculateStatistics(cfg, d, old) ==
    LET r == CountLoop(cfg, d, <<>>, <<>>)
    IN  IF r.raised THEN [raised |-> TRUE, stats |-> old]
        ELSE [raised |-> FALSE,
              stats |-> [set |-> TRUE, primary |-> MostCommon(r.primary),
                         special |-> MostCommon(r.special)]]

\* stats.get('primary', []) and stats.get('special', []), as the tables read it
StatsView(st) ==
    IF st.set THEN <<st.primary, st.special>> ELSE <<(<<>>), (<<>>)>>

(***************************************************************************)
(* The snapshot file: save_local_data, load_local_data.                    *)
(***************************************************************************)
NoFile == [t |-> "absent"]

\* json.dump of one value: a str becomes a JSON string, an int a JSON number,
\* a list a JSON array; a key the record lacks is not written
JsonValue(v) ==
    IF v.t = "str" THEN [v EXCEPT !.t = "string"]
    ELSE IF v.t = "int" THEN [v EXCEPT !.t = "number"]
    ELSE IF v.t = "list" THEN [v EXCEPT !.t = "array"]
    ELSE v

\* json.load of one value
PyValue(j) ==
    IF j.t = "string" THEN [j EXCEPT !.t = "str"]
    ELSE IF j.t = "number" THEN [j EXCEPT !.t = "int"]
    ELSE IF j.t = "array" THEN [j EXCEPT !.t = "list"]
    ELSE j

JsonObject(x) == [k \in DOMAIN x |-> JsonValue(x[k])]
PyDict(o) == [k \in DOMAIN o |-> PyValue(o[k])]

\* json.dump(self.data, f): the text of a JSON array of the records
JsonDump(d) ==
    [t |-> "file", whole |-> TRUE, array |-> [k \in 1..Len(d) |-> JsonObject(d[k])]]

\* json.load(f) of a whole text
JsonLoad(dk) == [k \in 1..Len(dk.array) |-> PyDict(dk.array[k])]

\* what open(filename, 'w') followed by a failed write leaves: a cut text
CutFile == [t |-> "file", whole |-> FALSE, array |-> <<>>]

SaveOutcomes == {"written", "open_fails", "write_fails"}

\* the file after save_local_data; the exception is caught and logged
SaveLocalData(dk, d, outcome) ==
    IF outcome = "written" THEN JsonDump(d)
    ELSE IF outcome = "open_fails" THEN dk
    ELSE CutFile

LoadOutcomes == {"read", "read_fails"}

\* a load that keeps what json.load assigned when the statistics raise
LoadLocalData_KeepsLoaded(cfg, dk, outcome) ==
    IF dk.t = "absent" THEN [data |-> <<>>, stats |-> NoStats]
    ELSE IF outcome = "read_fails" \/ ~dk.whole
    THEN [data |-> <<>>, stats |-> NoStats]
    ELSE LET r == CalculateStatistics(cfg, JsonLoad(dk), NoStats)
         IN  [data |-> JsonLoad(dk), stats |-> r.stats]

\* self.data and self.stats after __init__ (self.data = [], self.stats = {},
\* load_local_data); with outcome "read_fails" open or read raises
LoadLocalData(cfg, dk, outcome) ==
    IF dk.t = "absent" THEN [data |-> <<>>, stats |-> NoStats]
    ELSE IF outcome = "read_fails" \/ ~dk.whole
    THEN [data |-> <<>>, stats |-> NoStats]
    ELSE LET r == CalculateStatistics(cfg, JsonLoad(dk), NoStats)
         IN  IF r.raised THEN [data |-> <<>>, stats |-> NoStats]
             ELSE [data |-> JsonLoad(dk), stats |-> r.stats]

(***************************************************************************)
(* _finalize_data: sort, save, recompute.                                  *)
(***************************************************************************)
\* a finalize that saves before it sorts: the file gets the unsorted list
FinalizeData_SavesFirst(cfg, d, st, dk, outcome) ==
    LET sorted == SortDesc(d)
        r == CalculateStatistics(cfg, sorted, st)
    IN  [data |-> sorted, disk |-> SaveLocalData(dk, d, outcome),
         stats |-> r.stats, raised |-> r.raised]

FinalizeData(cfg, d, st, dk, outcome) ==
    LET sorted == SortDesc(d)
        r == CalculateStatistics(cfg, sorted, st)
    IN  [data |-> sorted, disk |-> SaveLocalData(dk, sorted, outcome),
         stats |-> r.stats, raised |-> r.raised]

(***************************************************************************)
(* import_from_csv: the parsing of the rows.                               *)
(* A row is the sequence of its cells (Python index k is position k + 1);  *)
(* a cell is a string: digits [t |-> "str", s |-> <<...>>] (s = <<>> is    *)
(* the empty string), a date text, or other text [t |-> "text"].           *)
(***************************************************************************)
\* val.isdigit()
IsDigit(cell) == cell.t = "str" /\ cell.s # <<>>

RECURSIVE StrToInt(_)
\* int(val) of a string of digits
StrToInt(s) ==
    IF s = <<>> THEN 0 ELSE 10 * StrToInt(SubSeq(s, 1, Len(s) - 1)) + s[Len(s)]

\* date_str.replace('/', '-')
ReplaceSlash(cell) == IF cell.t = "str" /\ "sep" \in DOMAIN cell
                      THEN [cell EXCEPT !.sep = "-"] ELSE cell

RECURSIVE InsertAsc(_, _)
InsertAsc(sorted, n) ==
    IF sorted = <<>> THEN <<n>>
    ELSE IF n < Head(sorted) THEN <<n>> \o sorted
    ELSE <<Head(sorted)>> \o InsertAsc(Tail(sorted), n)

RECURSIVE Sorted(_)
\* sorted(draw_numbers)
Sorted(s) == IF s = <<>> THEN <<>> ELSE InsertAsc(Sorted(Tail(s)), Head(s))

RECURSIVE DrawNumbers(_, _)
\* the loop `for i in range(6, 26)` from index i on: the digit cells as ints
DrawNumbers(row, i) ==
    IF i >= 26 THEN <<>>
    ELSE IF IsDigit(row[i + 1])
         THEN <<StrToInt(row[i + 1].s)>> \o DrawNumbers(row, i + 1)
         ELSE DrawNumbers(row, i + 1)

\* one row: the record it yields, or none (too short, a raise, no numbers)
ParseRow(row) ==
    IF Len(row) < 20 THEN [ok |-> FALSE, why |-> "short"]
    ELSE IF Len(row) < 26 THEN [ok |-> FALSE, why |-> "raised"]  \* row[i]: IndexError
    ELSE LET draw_numbers == DrawNumbers(row, 6)
             super_prize == IF Len(row) > 26 /\ IsDigit(row[27])
                            THEN StrToInt(row[27].s) ELSE 0
         IN  IF draw_numbers = <<>> THEN [ok |-> FALSE, why |-> "no_numbers"]
             ELSE [ok |-> TRUE,
                   item |-> [period |-> row[2],
                             lotteryDate |-> ReplaceSlash(row[3]),
                             drawNumberSize |->
                                 [t |-> "list", v |-> Sorted(draw_numbers)],
                             superPrizeNo |-> [t |-> "int", n |-> super_prize]]]

RECURSIVE ParseRows(_)
\* parsed_items
ParseRows(rows) ==
    IF rows = <<>> THEN <<>>
    ELSE LET r == ParseRow(Head(rows))
         IN  (IF r.ok THEN <<r.item>> ELSE <<>>) \o ParseRows(Tail(rows))

(***************************************************************************)
(* The inputs the model draws from.                                        *)
(***************************************************************************)
PyString(digits) == [t |-> "str", s |-> digits]
PyInt(n) == [t |-> "int", n |-> n]
PyList(v) == [t |-> "list", v |-> v]
DateStr(sep, y, m, d) == [t |-> "str", sep |-> sep, y |-> y, m |-> m, d |-> d]

Item(period, date, nums, sp) ==
    [period |-> period, lotteryDate |-> date, drawNumberSize |-> nums,
     superPrizeNo |-> sp]

\* the profiles: the shapes of LOTTERY_CONFIG, with start_date and keep_days
\* close to the model's dates
NormalProfile(hs) ==
    [is_high_frequency |-> FALSE, has_special |-> hs, keep_days |-> 0,
     start_date |-> [y |-> 2024, m |-> 1]]

HighFreqProfile(k) ==
    [is_high_frequency |-> TRUE, has_special |-> TRUE, keep_days |-> k,
     start_date |-> [y |-> 0, m |-> 0]]

\* a profile and the day the program runs on
Setups ==
    { [config |-> NormalProfile(TRUE), today |-> Date(2024, 3, 15)],
      [config |-> NormalProfile(FALSE), today |-> Date(2024, 3, 1)] }
    \cup
    { [config |-> HighFreqProfile(k), today |-> Date(2024, 3, 1)] :
          k \in 1..MaxKeepDays }

\* draw objects a response can carry: well formed ...
GoodItems ==
    { Item(PyString(<<9>>), DateStr("-", 2024, 1, 14), PyList(<<1, 2, 3>>),
           PyInt(2)),
      Item(PyString(<<1, 0>>), DateStr("-", 2024, 1, 30), PyList(<<2, 3>>),
           PyInt(0)),
      Item(PyInt(10), DateStr("-", 2024, 3, 15), PyList(<<>>), Missing) }

\* ... without a period; with a period but no date and a number for a list
NoPeriodItem == Item(Missing, DateStr("-", 2024, 1, 14), PyList(<<1>>), PyInt(0))
OddItem == Item(PyString(<<9, 9>>), Missing, PyInt(5), PyInt(1))

Items == GoodItems \cup {NoPeriodItem, OddItem}

\* every sequence of at most MaxBatch elements of S
Batches(S) == UNION { [1..n -> S] : n \in 0..MaxBatch }

IntPeriodItems == { z \in GoodItems : z.period.t = "int" }

\* the lists of draw objects the responses of the model carry
Pages ==
    { <<x>> : x \in Items }
    \cup { <<x, y>> : x \in { z \in GoodItems : PyStr(z.period) = <<1, 0>> },
                      y \in IntPeriodItems }
    \cup { <<x, NoPeriodItem>> : x \in IntPeriodItems }

OkBody(content) ==
    [t |-> "response", status |-> 200,
     body |-> [t |-> "dict", content |-> content]]

Responses ==
    { [t |-> "exception"],
      [t |-> "response", status |-> 500, body |-> [t |-> "unparseable"]],
      [t |-> "response", status |-> 200, body |-> [t |-> "unparseable"]],
      [t |-> "response", status |-> 200, body |-> [t |-> "list"]],
      OkBody(Missing),
      OkBody(PyInt(7)),
      OkBody([t |-> "dict", value |-> Missing]),
      OkBody([t |-> "dict", value |-> PyInt(7)]) }
    \cup { OkBody(PyList(b)) : b \in Pages }
    \cup { OkBody([t |-> "dict", value |-> PyList(<<x>>)]) :
              x \in IntPeriodItems }

Text == [t |-> "text"]

\* a row of n cells: period, date, the numbers from index 6 on, the special
\* number at index 26; every other cell is text
Row(n, period, date, nums, sp) ==
    [k \in 1..n |->
        IF k = 2 THEN period
        ELSE IF k = 3 THEN date
        ELSE IF k >= 7 /\ k - 6 <= Len(nums) THEN PyString(IntToStr(nums[k - 6]))
        ELSE IF k = 27 THEN sp
        ELSE Text]

GoodRows ==
    { Row(27, PyString(<<9>>), DateStr("/", 2024, 1, 14), <<3, 1, 2>>,
          PyString(<<2>>)),
      Row(26, PyString(<<1, 0>>), DateStr("/", 2024, 1, 30), <<3, 2>>, Text) }

BadRows ==
    { Row(27, PyString(<<1, 3>>), DateStr("/", 2024, 1, 10), <<>>, PyString(<<2>>)),
      Row(22, PyString(<<1, 4>>), DateStr("/", 2024, 1, 10), <<1>>, Text),
      Row(10, PyString(<<1, 5>>), DateStr("/", 2024, 1, 10), <<1>>, Text) }

\* a cell whose bytes are not UTF-8 text: the reader raises on the row
BadBytes == [t |-> "bad_bytes"]

UnreadableRow ==
    Row(27, PyString(<<1, 6>>), DateStr("/", 2024, 1, 10), <<1>>, BadBytes)

Rows == GoodRows \cup BadRows

Files ==
    { [t |-> "unopenable", rows |-> <<>>], [t |-> "rows", rows |-> <<>>] }
    \cup { [t |-> "rows", rows |-> <<r>>] : r \in Rows }
    \cup { [t |-> "rows", rows |-> <<b, g>>] :
              b \in { r \in BadRows : Len(r) < 20 }, g \in GoodRows }
    \cup { [t |-> "rows", rows |-> <<g, h>>] :
              g \in GoodRows, h \in { r \in Rows : Len(r) = 26 } }
    \cup { [t |-> "rows", rows |-> <<g, UnreadableRow>>] : g \in GoodRows }

(***************************************************************************)
(* The state machine of one DataManager.                                   *)
(***************************************************************************)
NoDate == Date(0, 0, 0)
Ret(t, a, b) == [t |-> t, a |-> a, b |-> b]
NoRet == Ret("none", 0, 0)
Raised == Ret("raised", 0, 0)
NoCall == [made |-> FALSE, same |-> FALSE, count |-> 0]

\* a response in the shape the endpoint documents: status 200, a JSON object
\* whose content is the list of draws or an object holding it under api_key
ExpectedShape(resp) ==
    /\ resp.t = "response"
    /\ resp.status = 200
    /\ resp.body.t = "dict"
    /\ \/ resp.body.content.t = "list"
       \/ /\ resp.body.content.t = "dict"
          /\ resp.body.content.value.t = "list"

\* str(period) of the draw objects of a fetch result
PeriodsOf(new_items) ==
    IF new_items.t # "list" THEN {}
    ELSE { PyStr(new_items.v[k].period) :
             k \in { j \in 1..Len(new_items.v) :
                       new_items.v[j].period.t # "missing" } }

\* DataManager(lottery_key) on a machine that has no snapshot file yet
Init ==
    /\ \E su \in Setups : config = su.config /\ today = su.today
    /\ disk = NoFile
    /\ data = LoadLocalData(config, NoFile, "read").data
    /\ stats = LoadLocalData(config, NoFile, "read").stats
    /\ pc = "returned"
    /\ pointer = NoDate
    /\ iday = 0
    /\ fetched = <<>>
    /\ progress = 0
    /\ ret = NoRet
    /\ op = "load"
    /\ start = NoDate
    /\ unit = "none"
    /\ got = {}
    /\ arg = <<>>
    /\ prev = NoCall
    /\ btn_update = TRUE
    /\ gui = "events"
    /\ finalized = <<>>

\* the application is started again: __init__ and load_local_data, the file
\* readable if it is there (SpecStore has the load whose read fails)
Restart ==
    /\ pc = "idle"
    /\ LET r == LoadLocalData(config, disk, "read")
       IN  /\ data' = r.data
           /\ stats' = r.stats
    /\ op' = "load"
    /\ pc' = "returned"
    /\ UNCHANGED <<config, disk, today, pointer, iday, fetched, progress, ret,
                   start, unit, got, finalized, call, host>>

\* the caller has the result (or the exception) of the operation and is ready
\* for the next one
Resume ==
    /\ pc = "returned"
    /\ pc' = "idle"
    /\ op' = "none"
    /\ ret' = NoRet
    /\ fetched' = <<>>
    /\ progress' = 0
    /\ pointer' = NoDate
    /\ iday' = 0
    /\ start' = NoDate
    /\ unit' = "none"
    /\ got' = {}
    /\ finalized' = <<>>
    /\ UNCHANGED <<config, data, stats, disk, today, call, host>>

\* the start point of _fetch_normal_history (lines 53-61): a date, or a raise
\* (KeyError) when the first record has no lotteryDate
StartPoint(cfg, d) ==
    IF d = <<>> THEN [ok |-> TRUE, dt |-> StrpMonth(cfg.start_date)]
    ELSE IF d[1].lotteryDate.t = "missing" THEN [ok |-> FALSE, dt |-> NoDate]
    ELSE LET last == StrpDate(d[1].lotteryDate)
         IN  [ok |-> TRUE,
              dt |-> NextDay(IF last.ok THEN last.dt
                             ELSE StrpMonth(cfg.start_date))]

\* fetch_all_history is called
BeginSync ==
    /\ pc = "idle"
    /\ op' = "sync"
    /\ UNCHANGED <<fetched, progress, unit, got, call, host>>

\* fetch_all_history, backfill: reading the first record's date raises
SyncStartRaises ==
    /\ BeginSync
    /\ ~config.is_high_frequency
    /\ ~StartPoint(config, data).ok
    /\ ret' = Raised
    /\ start' = NoDate
    /\ pc' = "returned"
    /\ UNCHANGED <<config, data, stats, disk, today, pointer, iday, finalized>>

\* an up-to-date sync without the early return: the empty walk falls through
\* to _finalize_data and return len(self.data)
SyncUpToDate_FallsThrough ==
    /\ BeginSync
    /\ ~config.is_high_frequency
    /\ StartPoint(config, data).ok
    /\ DateLess(today, StartPoint(config, data).dt)
    /\ start' = StartPoint(config, data).dt
    /\ \E outcome \in SaveOutcomes :
         \E f \in {FinalizeData(config, data, stats, disk, outcome)} :
             /\ data' = f.data
             /\ disk' = f.disk
             /\ stats' = f.stats
             /\ ret' = IF f.raised THEN Raised
                       ELSE Ret("count", Len(f.data), 0)
             /\ finalized' = Append(finalized, outcome)
    /\ pc' = "returned"
    /\ UNCHANGED <<config, today, pointer, iday>>

\* fetch_all_history, backfill: the start point is after today (lines 65-67)
SyncUpToDate ==
    /\ BeginSync
    /\ ~config.is_high_frequency
    /\ StartPoint(config, data).ok
    /\ DateLess(today, StartPoint(config, data).dt)
    /\ start' = StartPoint(config, data).dt
    /\ ret' = Ret("count", 0, 0)
    /\ pc' = "returned"
    /\ UNCHANGED <<config, data, stats, disk, today, pointer, iday, finalized>>

\* fetch_all_history, backfill: the walk begins
SyncStartNormal ==
    /\ BeginSync
    /\ ~config.is_high_frequency
    /\ StartPoint(config, data).ok
    /\ ~DateLess(today, StartPoint(config, data).dt)
    /\ start' = StartPoint(config, data).dt
    /\ pointer' = StartPoint(config, data).dt
    /\ pc' = "normal"
    /\ ret' = NoRet
    /\ UNCHANGED <<config, data, stats, disk, today, iday, finalized>>

\* one turn of the while loop (lines 69-81): progress, fetch, merge, advance
NormalStep ==
    /\ pc = "normal"
    /\ DateLeq(pointer, today)
    /\ \E resp \in Responses :
         LET new_items == FetchFromApi(resp)
             m == MergeData(data, new_items)
             nxt == AdvancePointer(pointer)
         IN  /\ progress' = progress + 1
             /\ fetched' = Append(fetched, MonthParam(pointer))
             /\ unit' = IF ExpectedShape(resp) THEN "ok" ELSE "failed"
             /\ got' = got \cup PeriodsOf(new_items)
             /\ data' = m.data
             /\ IF m.raised \/ ~nxt.ok
                THEN /\ pc' = "returned"
                     /\ ret' = Raised
                     /\ pointer' = pointer
                ELSE /\ pc' = "normal"
                     /\ ret' = ret
                     /\ pointer' = nxt.dt
    /\ UNCHANGED <<config, stats, disk, today, iday, op, start, finalized, call,
                   host>>

\* the loop is left: _finalize_data, return len(self.data) (lines 83-84)
NormalFinish ==
    /\ pc = "normal"
    /\ ~DateLeq(pointer, today)
    /\ \E outcome \in SaveOutcomes :
         \E f \in {FinalizeData(config, data, stats, disk, outcome)} :
             /\ data' = f.data
             /\ disk' = f.disk
             /\ stats' = f.stats
             /\ ret' = IF f.raised THEN Raised
                       ELSE Ret("count", Len(f.data), 0)
             /\ finalized' = Append(finalized, outcome)
    /\ pc' = "returned"
    /\ UNCHANGED <<config, today, pointer, iday, fetched, progress, op, start,
                   unit, got, call, host>>

\* fetch_all_history, rolling window: the day loop begins
SyncStartHighFreq ==
    /\ BeginSync
    /\ config.is_high_frequency
    /\ iday' = 0
    /\ pc' = "high_freq"
    /\ ret' = NoRet
    /\ start' = NoDate
    /\ UNCHANGED <<config, data, stats, disk, today, pointer, finalized>>

\* one turn of the day loop (lines 90-100): progress, fetch, merge
HighFreqStep ==
    /\ pc = "high_freq"
    /\ iday < config.keep_days
    /\ \E resp \in Responses :
         LET new_items == FetchFromApi(resp)
             m == MergeData(data, new_items)
         IN  /\ progress' = progress + 1
             /\ fetched' = Append(fetched, DateParam(DaysBefore(today, iday)))
             /\ unit' = IF ExpectedShape(resp) THEN "ok" ELSE "failed"
             /\ got' = got \cup PeriodsOf(new_items)
             /\ data' = m.data
             /\ IF m.raised
                THEN /\ pc' = "returned"
                     /\ ret' = Raised
                     /\ iday' = iday
                ELSE /\ pc' = "high_freq"
                     /\ ret' = ret
                     /\ iday' = iday + 1
    /\ UNCHANGED <<config, stats, disk, today, pointer, op, start, finalized,
                   call, host>>

\* limit = keep_days * 210
Limit(cfg) == cfg.keep_days * DrawsPerDay

\* a retention that truncates before sorting: the oldest insertions survive
Retain_Unsorted(cfg, d) ==
    IF Len(d) > Limit(cfg) THEN SortDesc(SubSeq(d, 1, Limit(cfg)))
    ELSE SortDesc(d)

\* lines 102-106: sort, keep the first `limit`
Retain(cfg, d) ==
    LET sorted == SortDesc(d)
    IN  IF Len(sorted) > Limit(cfg) THEN SubSeq(sorted, 1, Limit(cfg))
        ELSE sorted

\* the day loop is done: retention, _finalize_data, return len(self.data)
HighFreqFinish ==
    /\ pc = "high_freq"
    /\ iday >= config.keep_days
    /\ \E outcome \in SaveOutcomes :
         \E f \in {FinalizeData(config, Retain(config, data), stats, disk,
                               outcome)} :
             /\ data' = f.data
             /\ disk' = f.disk
             /\ stats' = f.stats
             /\ ret' = IF f.raised THEN Raised
                       ELSE Ret("count", Len(f.data), 0)
             /\ finalized' = Append(finalized, outcome)
    /\ pc' = "returned"
    /\ UNCHANGED <<config, today, pointer, iday, fetched, progress, op, start,
                   unit, got, call, host>>

\* `for row in reader` raises (line 187, outside the row's own try)
ReaderRaises(rows) ==
    \E k \in 1..Len(rows) : \E c \in 1..Len(rows[k]) : rows[k][c].t = "bad_bytes"

\* an import that merges and finalizes whatever was parsed, nothing included
ImportResult_AlwaysFinalizes(cfg, d, st, dk, file, outcome) ==
    LET parsed_items == IF file.t = "unopenable" \/ ReaderRaises(file.rows)
                        THEN <<>> ELSE ParseRows(file.rows)
        m == MergeData(d, PyList(parsed_items))
        f == FinalizeData(cfg, m.data, st, dk, outcome)
    IN  [data |-> f.data, disk |-> f.disk, stats |-> f.stats,
         finalized |-> <<outcome>>,
         ret |-> IF f.raised THEN Ret("pair", 0, 0)
                 ELSE Ret("pair", m.count, Len(parsed_items) - m.count)]

\* import_from_csv(file_path): the store, the snapshot, the index, the runs of
\* _finalize_data and the value returned
ImportResult(cfg, d, st, dk, file, outcome) ==
    LET parsed_items == ParseRows(file.rows)
        m == MergeData(d, PyList(parsed_items))
        f == FinalizeData(cfg, m.data, st, dk, outcome)
    IN  IF file.t = "unopenable" \/ ReaderRaises(file.rows)
        THEN [data |-> d, disk |-> dk, stats |-> st, finalized |-> <<>>,
              ret |-> Ret("pair", 0, 0)]                      \* lines 231-233
        ELSE IF parsed_items = <<>>
        THEN [data |-> d, disk |-> dk, stats |-> st, finalized |-> <<>>,
              ret |-> Ret("pair", 0, 0)]                      \* lines 227-229
        ELSE [data |-> f.data, disk |-> f.disk, stats |-> f.stats,
              finalized |-> <<outcome>>,
              ret |-> IF f.raised THEN Ret("pair", 0, 0)      \* line 231
                      ELSE Ret("pair", m.count,
                               Len(parsed_items) - m.count)]

\* import_from_csv(file_path)
ImportFromCsv ==
    /\ pc = "idle"
    /\ \E file \in Files, outcome \in SaveOutcomes :
         \E r \in {ImportResult(config, data, stats, disk, file, outcome)} :
             /\ data' = r.data
             /\ disk' = r.disk
             /\ stats' = r.stats
             /\ ret' = r.ret
             /\ got' = IF file.t = "unopenable" \/ ReaderRaises(file.rows)
                       THEN {}
                       ELSE PeriodsOf(PyList(ParseRows(file.rows)))
             /\ finalized' = r.finalized
    /\ op' = "import"
    /\ pc' = "returned"
    /\ UNCHANGED <<config, today, pointer, iday, fetched, progress, start,
                   unit, call, host>>

Next ==
    \/ Restart
    \/ Resume
    \/ SyncStartRaises
    \/ SyncUpToDate
    \/ SyncStartNormal
    \/ NormalStep
    \/ NormalFinish
    \/ SyncStartHighFreq
    \/ HighFreqStep
    \/ HighFreqFinish
    \/ ImportFromCsv

Spec == Init /\ [][Next]_vars

(***************************************************************************)
(* _merge_data on its own: any sequence of merges into an empty store.     *)
(***************************************************************************)
\* the candidate records: the well-formed draw objects; two of them have
\* periods of different types and the same string, "10"
Candidates == GoodItems

InitMerge ==
    /\ config = NormalProfile(TRUE)
    /\ today = Date(2024, 3, 15)
    /\ disk = NoFile
    /\ data = <<>>
    /\ stats = NoStats
    /\ pc = "merge"
    /\ pointer = NoDate
    /\ iday = 0
    /\ fetched = <<>>
    /\ progress = 0
    /\ ret = NoRet
    /\ op = "merge"
    /\ start = NoDate
    /\ unit = "none"
    /\ got = {}
    /\ arg = <<>>
    /\ prev = NoCall
    /\ btn_update = TRUE
    /\ gui = "events"
    /\ finalized = <<>>

\* self._merge_data(batch); prev keeps the call before it: whether there was
\* one, whether it was given this same batch, and what it returned
MergeCall ==
    /\ pc = "merge"
    /\ \E batch \in Batches(Candidates) :
         LET m == MergeData(data, PyList(batch))
         IN  /\ data' = m.data
             /\ ret' = Ret("count", m.count, 0)
             /\ arg' = batch
             /\ prev' = [made |-> ret.t = "count",
                         same |-> ret.t = "count" /\ arg = batch,
                         count |-> ret.a]
    /\ UNCHANGED <<host, config, stats, disk, today, pc, pointer, iday, fetched,
                   progress, op, start, unit, got, finalized>>

NextMerge == MergeCall

SpecMerge == InitMerge /\ [][NextMerge]_vars

(***************************************************************************)
(* calculate_statistics on its own: any record list, any profile shape.    *)
(***************************************************************************)
\* records for the index: the well-formed draw objects, and two more with a
\* separate special number: one without drawn numbers, one with a single one
StatItems ==
    GoodItems \cup
    { Item(PyString(<<7>>), DateStr("-", 2024, 1, 14), PyList(<<>>), PyInt(3)),
      Item(PyString(<<8>>), DateStr("-", 2024, 1, 14), PyList(<<3>>), PyInt(1)) }

StatProfiles ==
    { NormalProfile(TRUE), NormalProfile(FALSE), HighFreqProfile(MaxKeepDays) }

InitStats ==
    /\ config \in StatProfiles
    /\ today = Date(2024, 3, 15)
    /\ disk = NoFile
    /\ data \in Batches(StatItems)
    /\ stats = NoStats
    /\ pc = "stats"
    /\ pointer = NoDate
    /\ iday = 0
    /\ fetched = <<>>
    /\ progress = 0
    /\ ret = NoRet
    /\ op = "stats"
    /\ start = NoDate
    /\ unit = "none"
    /\ got = {}
    /\ arg = <<>>
    /\ prev = NoCall
    /\ btn_update = TRUE
    /\ gui = "events"
    /\ finalized = <<>>

\* self.calculate_statistics()
Recompute ==
    /\ pc = "stats"
    /\ LET r == CalculateStatistics(config, data, stats)
       IN  /\ stats' = r.stats
           /\ ret' = IF r.raised THEN Raised ELSE Ret("done", 0, 0)
    /\ pc' = "returned"
    /\ UNCHANGED <<config, data, disk, today, pointer, iday, fetched,
                   progress, op, start, unit, got, finalized, call, host>>

NextStats == Recompute

SpecStats == InitStats /\ [][NextStats]_vars

(***************************************************************************)
(* save_local_data and load_local_data on their own: saves and loads of a   *)
(* store, each of which can fail.                                          *)
(***************************************************************************)
\* records of the store: the well-formed ones, and the one whose numbers
\* field is no list
StoreItems == GoodItems \cup {OddItem}

InitStore ==
    /\ config \in StatProfiles
    /\ today = Date(2024, 3, 15)
    /\ disk = NoFile
    /\ data \in Batches(StoreItems)
    /\ stats = NoStats
    /\ pc = "store"
    /\ pointer = NoDate
    /\ iday = 0
    /\ fetched = <<>>
    /\ progress = 0
    /\ ret = NoRet
    /\ op = "none"
    /\ start = NoDate
    /\ unit = "none"
    /\ got = {}
    /\ arg = <<>>
    /\ prev = NoCall
    /\ btn_update = TRUE
    /\ gui = "events"
    /\ finalized = <<>>

\* self.save_local_data()
SaveCall ==
    /\ pc = "store"
    /\ \E outcome \in SaveOutcomes :
         /\ disk' = SaveLocalData(disk, data, outcome)
         /\ unit' = outcome
    /\ op' = "save"
    /\ ret' = Ret("done", 0, 0)
    /\ UNCHANGED <<config, data, stats, today, pc, pointer, iday, fetched,
                   progress, start, got, finalized, call, host>>

\* DataManager(lottery_key): self.data = [], self.stats = {}, load_local_data()
LoadCall ==
    /\ pc = "store"
    /\ \E outcome \in LoadOutcomes :
         LET r == LoadLocalData(config, disk, outcome)
         IN  /\ data' = r.data
             /\ stats' = r.stats
             /\ unit' = outcome
    /\ op' = "load"
    /\ ret' = Ret("done", 0, 0)
    /\ UNCHANGED <<config, disk, today, pc, pointer, iday, fetched,
                   progress, start, got, finalized, call, host>>

NextStore == SaveCall \/ LoadCall

SpecStore == InitStore /\ [][NextStore]_vars

(***************************************************************************)
(* import_from_csv on its own: any sequence of imports into a store.       *)
(***************************************************************************)
\* the stores the imports start from: empty, or what a sync that raised
\* before _finalize_data has left in memory
ImportStores == {<<>>} \cup { <<x>> : x \in StoreItems }

InitImport ==
    /\ config \in StatProfiles
    /\ today = Date(2024, 3, 15)
    /\ disk = NoFile
    /\ data \in ImportStores
    /\ stats = NoStats
    /\ pc = "import"
    /\ pointer = NoDate
    /\ iday = 0
    /\ fetched = <<>>
    /\ progress = 0
    /\ ret = NoRet
    /\ op = "none"
    /\ start = NoDate
    /\ unit = "none"
    /\ got = {}
    /\ arg = <<>>
    /\ prev = NoCall
    /\ btn_update = TRUE
    /\ gui = "events"
    /\ finalized = <<>>

\* added, skipped = self.dm.import_from_csv(file_name)
ImportCall ==
    /\ pc = "import"
    /\ \E file \in Files, outcome \in SaveOutcomes :
         \E r \in {ImportResult(config, data, stats, disk, file, outcome)} :
             /\ data' = r.data
             /\ disk' = r.disk
             /\ stats' = r.stats
             /\ ret' = r.ret
             /\ arg' = file
             /\ prev' = [made |-> op = "import",
                         same |-> op = "import" /\ arg = file,
                         count |-> ret.a]
             /\ finalized' = r.finalized
    /\ op' = "import"
    /\ UNCHANGED <<host, config, today, pc, pointer, iday, fetched, progress,
                   start, unit, got>>

NextImport == ImportCall

SpecImport == InitImport /\ [][NextImport]_vars

(***************************************************************************)
(* The host window of one DataManager (UniversalLotteryTab): the update     *)
(* button runs fetch_all_history in a thread of its own, the import button *)
(* runs import_from_csv in the GUI thread.                                 *)
(***************************************************************************)
\* the files the user picks in the host
AppFiles ==
    { f \in Files : f.t = "unopenable"
                      \/ (Len(f.rows) = 1 /\ f.rows[1] \in GoodRows) }

InitApp ==
    /\ \E su \in Setups : config = su.config /\ today = su.today
    /\ disk = NoFile
    /\ data = LoadLocalData(config, NoFile, "read").data
    /\ stats = LoadLocalData(config, NoFile, "read").stats
    /\ pc = "idle"
    /\ pointer = NoDate
    /\ iday = 0
    /\ fetched = <<>>
    /\ progress = 0
    /\ ret = NoRet
    /\ op = "none"
    /\ start = NoDate
    /\ unit = "none"
    /\ got = {}
    /\ arg = <<>>
    /\ prev = NoCall
    /\ btn_update = TRUE
    /\ gui = "events"
    /\ finalized = <<>>

\* btn_update.clicked: start_update_thread; a disabled button takes no click,
\* and a click is handled when the GUI thread is back in its event loop
StartUpdateThread ==
    /\ gui = "events"
    /\ btn_update
    /\ btn_update' = FALSE
    /\ UNCHANGED <<config, data, stats, disk, today, pc, pointer, iday, log,
                   call, gui>>

\* _thread_task: the steps of fetch_all_history in the thread started
ThreadTask ==
    /\ ~btn_update
    /\ \/ SyncUpToDate
       \/ SyncStartNormal
       \/ NormalStep
       \/ NormalFinish
       \/ SyncStartHighFreq
       \/ HighFreqStep
       \/ HighFreqFinish

\* worker.finished reaches the GUI thread: on_update_finished
OnUpdateFinished ==
    /\ gui = "events"
    /\ ~btn_update
    /\ pc = "returned"
    /\ ret.t = "count"
    /\ btn_update' = TRUE
    /\ pc' = "idle"
    /\ op' = "none"
    /\ ret' = NoRet
    /\ fetched' = <<>>
    /\ progress' = 0
    /\ pointer' = NoDate
    /\ iday' = 0
    /\ start' = NoDate
    /\ unit' = "none"
    /\ got' = {}
    /\ finalized' = <<>>
    /\ UNCHANGED <<config, data, stats, disk, today, call, gui>>

\* btn_load.clicked: load_file, a file is chosen and import_from_csv entered
LoadFileBegin ==
    /\ gui = "events"
    /\ \E file \in AppFiles : arg' = file
    /\ gui' = "import"
    /\ UNCHANGED <<config, data, stats, disk, today, pc, pointer, iday, log,
                   prev, btn_update>>

\* import_from_csv merges, finalizes and returns; load_file refreshes the
\* tables
LoadFileEnd ==
    /\ gui = "import"
    /\ \E outcome \in SaveOutcomes :
         \E r \in {ImportResult(config, data, stats, disk, arg, outcome)} :
             /\ data' = r.data
             /\ disk' = r.disk
             /\ stats' = r.stats
    /\ arg' = <<>>
    /\ gui' = "events"
    /\ UNCHANGED <<config, today, pc, pointer, iday, log, prev, btn_update>>

NextApp ==
    \/ StartUpdateThread
    \/ ThreadTask
    \/ OnUpdateFinished
    \/ LoadFileBegin
    \/ LoadFileEnd

SpecApp == InitApp /\ [][NextApp]_vars

(***************************************************************************)
(* fetch_all_history statement by statement: one sync, given a callback as *)
(* the host gives one, each turn of its loop taken apart into the callback, *)
(* the request and the merge.  arg is new_items between the request and    *)
(* the merge.                                                              *)
(***************************************************************************)
\* the stores the sync starts from
WalkStores == {<<>>} \cup { <<x>> : x \in GoodItems }

InitWalk ==
    /\ \E su \in Setups : config = su.config /\ today = su.today
    /\ disk = NoFile
    /\ data \in WalkStores
    /\ stats = NoStats
    /\ pc = "idle"
    /\ pointer = NoDate
    /\ iday = 0
    /\ fetched = <<>>
    /\ progress = 0
    /\ ret = NoRet
    /\ op = "none"
    /\ start = NoDate
    /\ unit = "none"
    /\ got = {}
    /\ arg = <<>>
    /\ prev = NoCall
    /\ btn_update = TRUE
    /\ gui = "events"
    /\ finalized = <<>>

\* the walk is not over: `while current_pointer <= today`, `for i in
\* range(keep_days)`
InLoop ==
    IF config.is_high_frequency THEN iday < config.keep_days
    ELSE DateLeq(pointer, today)

\* fetch_all_history up to the loop (lines 44-67, 86-88)
WalkStart ==
    /\ pc = "idle"
    /\ op' = "sync"
    /\ IF config.is_high_frequency
       THEN /\ pc' = "loop"
            /\ UNCHANGED <<pointer, start, ret>>
       ELSE LET sp == StartPoint(config, data)
            IN  /\ start' = sp.dt
                /\ IF ~sp.ok
                   THEN /\ pc' = "returned" /\ ret' = Raised
                        /\ UNCHANGED pointer
                   ELSE IF DateLess(today, sp.dt)
                   THEN /\ pc' = "returned" /\ ret' = Ret("count", 0, 0)
                        /\ UNCHANGED pointer
                   ELSE /\ pc' = "loop" /\ pointer' = sp.dt
                        /\ UNCHANGED ret
    /\ UNCHANGED <<config, data, stats, disk, today, iday, fetched, progress,
                   unit, got, finalized, call, host>>

\* a turn that goes on to the request without reporting progress
WalkCallback_Silent ==
    /\ pc = "loop"
    /\ InLoop
    /\ pc' = "fetch"
    /\ UNCHANGED <<config, data, stats, disk, today, pointer, iday, fetched,
                   progress, ret, op, start, unit, got, finalized, call, host>>

\* a turn of the loop begins: progress_callback(msg) (lines 70-73, 91-96)
WalkCallback ==
    /\ pc = "loop"
    /\ InLoop
    /\ progress' = progress + 1
    /\ pc' = "fetch"
    /\ UNCHANGED <<config, data, stats, disk, today, pointer, iday, fetched,
                   ret, op, start, unit, got, finalized, call, host>>

\* new_items = self._fetch_from_api(...) (lines 75, 98)
WalkFetch ==
    /\ pc = "fetch"
    /\ \E resp \in Responses :
         /\ arg' = FetchFromApi(resp)
         /\ unit' = IF ExpectedShape(resp) THEN "ok" ELSE "failed"
         /\ got' = got \cup PeriodsOf(FetchFromApi(resp))
    /\ fetched' = Append(fetched,
                         IF config.is_high_frequency
                         THEN DateParam(DaysBefore(today, iday))
                         ELSE MonthParam(pointer))
    /\ pc' = "merge"
    /\ UNCHANGED <<config, data, stats, disk, today, pointer, iday, progress,
                   ret, op, start, finalized, prev, host>>

\* self._merge_data(new_items), then the step to the next unit (lines 76-81,
\* 99-100)
WalkMerge ==
    /\ pc = "merge"
    /\ LET m == MergeData(data, arg)
           nxt == AdvancePointer(pointer)
       IN  /\ data' = m.data
           /\ IF m.raised \/ (~config.is_high_frequency /\ ~nxt.ok)
              THEN /\ pc' = "returned"
                   /\ ret' = Raised
                   /\ UNCHANGED <<pointer, iday>>
              ELSE /\ pc' = "loop"
                   /\ ret' = ret
                   /\ IF config.is_high_frequency
                      THEN iday' = iday + 1 /\ pointer' = pointer
                      ELSE pointer' = nxt.dt /\ iday' = iday
    /\ arg' = <<>>
    /\ UNCHANGED <<config, stats, disk, today, fetched, progress, op, start,
                   unit, got, finalized, prev, host>>

\* the loop is left: retention for a rolling window, _finalize_data, return
\* len(self.data) (lines 83-84, 102-109)
WalkFinish ==
    /\ pc = "loop"
    /\ ~InLoop
    /\ \E outcome \in SaveOutcomes :
         \E f \in {FinalizeData(config,
                               IF config.is_high_frequency
                               THEN Retain(config, data) ELSE data,
                               stats, disk, outcome)} :
             /\ data' = f.data
             /\ disk' = f.disk
             /\ stats' = f.stats
             /\ ret' = IF f.raised THEN Raised
                       ELSE Ret("count", Len(f.data), 0)
             /\ finalized' = Append(finalized, outcome)
    /\ pc' = "returned"
    /\ UNCHANGED <<config, today, pointer, iday, fetched, progress, op, start,
                   unit, got, call, host>>

NextWalk ==
    \/ WalkStart
    \/ WalkCallback
    \/ WalkFetch
    \/ WalkMerge
    \/ WalkFinish

SpecWalk == InitWalk /\ [][NextWalk]_vars

(***************************************************************************)
(* Properties.                                                             *)
(***************************************************************************)
NoDuplicatePeriods(d) ==
    \A i, j \in 1..Len(d) : i # j => PyStr(d[i].period) # PyStr(d[j].period)

\* C1: starting from an empty store, after any sequence of merges no two
\* records of the store have the same str(period).
C1_KeyUniqueness == op = "merge" => NoDuplicatePeriods(data)

\* C2: merging a batch again right after merging it returns 0 and leaves the
\* record sequence as the first merge left it.
C2_MergeIdempotent ==
    [][(op = "merge" /\ ret.t = "count" /\ arg' = arg)
         => (ret'.a = 0 /\ data' = data)]_vars

\* a batch that added records has just been merged a second time
C2_Witness ==
    /\ op = "merge"
    /\ prev.made /\ prev.same /\ prev.count > 0
    /\ arg # <<>>
    /\ ret.a = 0

RECURSIVE MonthsFromTo(_, _, _, _)
\* the month parameters from month m of year y through month tm of year ty
MonthsFromTo(y, m, ty, tm) ==
    IF y > ty \/ (y = ty /\ m > tm) THEN <<>>
    ELSE <<[param |-> "month", y |-> y, m |-> m, d |-> 0]>>
         \o (IF m = 12 THEN MonthsFromTo(y + 1, 1, ty, tm)
             ELSE MonthsFromTo(y, m + 1, ty, tm))

\* C3: a backfill sync whose start point is not after today fetches every
\* month from the start point's month through today's month, once each, in
\* ascending order, and nothing else.
C3_MonthlyWalk ==
    (/\ pc = "returned" /\ op = "sync" /\ ret.t = "count"
     /\ ~config.is_high_frequency
     /\ start # NoDate /\ DateLeq(start, today))
    => fetched = MonthsFromTo(start.y, start.m, today.y, today.m)

\* C4: fetch_all_history and import_from_csv end by returning their value
\* (a count, or an (added, skipped) pair), never by raising.
C4_NeverRaises ==
    (pc = "returned" /\ op \in {"sync", "import"})
    => ret.t \in {"count", "pair"}

\* C5: a failed request contributes nothing and the walk goes on to the next
\* time unit; every record a response carried is in the store when the sync
\* returns.
C5_FailedFetchDoesNotAbort ==
    [][/\ (op' = "sync" /\ Len(fetched') = Len(fetched) + 1 /\ unit' = "failed")
          => (data' = data /\ pc' = pc /\ (pointer' # pointer \/ iday' # iday))
       /\ (op' = "sync" /\ pc' = "returned" /\ ret'.t = "count")
          => got' \subseteq ExistingPeriods(data')]_vars

\* C6: the count a sync returns is the number of records the store holds.
C6_ReturnsTotal ==
    (pc = "returned" /\ op = "sync" /\ ret.t = "count") => ret.a = Len(data)

\* C7: a backfill sync whose start point is after today returns at once: no
\* fetch, no progress callback, records, index and snapshot unchanged.
C7_UpToDateNoEffect ==
    [][(/\ pc = "idle" /\ op' = "sync"
        /\ ~config.is_high_frequency
        /\ StartPoint(config, data).ok
        /\ DateLess(today, StartPoint(config, data).dt))
       => (/\ pc' = "returned"
           /\ fetched' = <<>> /\ progress' = 0
           /\ data' = data /\ stats' = stats /\ disk' = disk)]_vars

\* an up-to-date sync of a non-empty store has returned
C7_Witness ==
    /\ pc = "returned" /\ op = "sync"
    /\ start # NoDate /\ DateLess(today, start)
    /\ data # <<>>
    /\ fetched = <<>>

Occurrences(x, s) == Cardinality({ k \in 1..Len(s) : s[k] = x })
Records(s) == { s[k] : k \in 1..Len(s) }

\* `after` is `held` cut to the limit: nothing new, nothing twice, as many as
\* the limit allows, and no record dropped has a greater key than one kept
RetentionOk(cfg, held, after) ==
    /\ Len(after) = IF Len(held) > Limit(cfg) THEN Limit(cfg) ELSE Len(held)
    /\ \A x \in Records(held) \cup Records(after) :
          /\ Occurrences(x, after) <= Occurrences(x, held)
          /\ Occurrences(x, after) < Occurrences(x, held)
             => \A y \in Records(after) : ~StrLess(SortKey(y), SortKey(x))

\* C8: when the day loop of a rolling-window sync is done, a store of more
\* than keep_days * DrawsPerDay records is cut to exactly that many, those of
\* greatest str(period); a smaller store loses nothing.
C8_Retention ==
    [][(pc = "high_freq" /\ pc' = "returned" /\ iday >= config.keep_days)
       => RetentionOk(config, data, data')]_vars

\* a rolling-window sync has returned a store cut to the limit, and a record
\* one of its responses carried is gone
C8_Witness ==
    /\ pc = "returned" /\ op = "sync" /\ ret.t = "count"
    /\ config.is_high_frequency
    /\ Len(data) = Limit(config)
    /\ ~(got \subseteq ExistingPeriods(data))

\* the exposed index is what calculate_statistics makes of the store now
IndexFresh ==
    LET r == CalculateStatistics(config, data, NoStats)
    IN  ~r.raised /\ StatsView(r.stats) = StatsView(stats)

\* C9: whenever a sync, an import or the load at construction has returned,
\* the exposed index equals the index recomputed from the store.
C9_IndexConsistent ==
    (pc = "returned" /\ op \in {"sync", "import", "load"} /\ ret.t # "raised")
    => IndexFresh

RECURSIVE SumCounts(_)
\* sum(count for (number, count) in pairs)
SumCounts(pairs) ==
    IF pairs = <<>> THEN 0 ELSE Head(pairs).cnt + SumCounts(Tail(pairs))

Embedded(cfg) == ~cfg.is_high_frequency /\ cfg.has_special

NumbersOf(x) == IF x.drawNumberSize.t = "list" THEN x.drawNumberSize.v ELSE <<>>

RECURSIVE PrimaryOccurrences(_, _)
\* the primary-pool occurrences of the records: all numbers, but for the last
\* one under an embedded special number
PrimaryOccurrences(cfg, d) ==
    IF d = <<>> THEN 0
    ELSE (IF Embedded(cfg) /\ NumbersOf(Head(d)) # <<>>
          THEN Len(NumbersOf(Head(d))) - 1 ELSE Len(NumbersOf(Head(d))))
         + PrimaryOccurrences(cfg, Tail(d))

\* the record carries a special number
CarriesSpecial(cfg, x) ==
    IF cfg.is_high_frequency
    THEN x.superPrizeNo.t = "int" /\ x.superPrizeNo.n > 0
    ELSE cfg.has_special /\ NumbersOf(x) # <<>>

\* C10: the primary counts sum to the primary-pool occurrences of the records,
\* the special counts to the number of records that carry a special number.
C10_FrequencyConservation ==
    (op = "stats" /\ pc = "returned" /\ ret.t = "done")
    => /\ SumCounts(stats.primary) = PrimaryOccurrences(config, data)
       /\ SumCounts(stats.special)
            = Cardinality({ k \in 1..Len(data) : CarriesSpecial(config, data[k]) })

\* C11: whatever a step does, the snapshot afterwards is either the snapshot as
\* it was before the step or the whole dump of the records: a save that fails
\* leaves the earlier content, never an empty or cut file.
C11_FailedSaveKeepsSnapshot ==
    [][disk' = disk \/ disk' = JsonDump(data')]_vars

\* C12: a load of a snapshot that is the whole dump of the records held gives
\* back those records, in the same order and field for field.
C12_RoundTrip ==
    [][(pc = "idle" /\ op' = "load" /\ disk = JsonDump(data)) => data' = data]_vars

\* the records of the snapshot cannot be turned into an index
Unusable(cfg, dk) == CalculateStatistics(cfg, JsonLoad(dk), NoStats).raised

\* C13: a load returns without raising; if there is no snapshot, or it cannot
\* be read, or it is no whole JSON text, or its records are unusable, the
\* store is empty afterwards.
C13_LoadFailureResets ==
    op = "load"
    => /\ ret.t # "raised"
       /\ (\/ disk.t = "absent"
           \/ unit = "read_fails"
           \/ ~disk.whole
           \/ Unusable(config, disk)) => data = <<>>

\* a whole snapshot with records was loaded, its records were unusable, and
\* the store is empty
C13_Witness ==
    /\ op = "load" /\ unit = "read"
    /\ disk.t = "file" /\ disk.whole /\ Len(disk.array) > 0
    /\ Unusable(config, disk)
    /\ data = <<>>

\* parsed_items of a file the reader gets through
ParsedItems(file) ==
    IF file.t = "rows" /\ ~ReaderRaises(file.rows) THEN ParseRows(file.rows)
    ELSE <<>>

\* every data row of the file is well formed, and no two have the same period
WellFormedFile(file) ==
    /\ file.t = "rows"
    /\ \A k \in 1..Len(file.rows) :
          ~ReaderRaises(<<file.rows[k]>>) /\ ParseRow(file.rows[k]).ok
    /\ NoDuplicatePeriods(ParseRows(file.rows))

\* C14: an import of n well-formed rows with distinct periods, none of them in
\* the store, returns (n, 0); the same file imported again right after that
\* returns (0, n) and leaves the record sequence as it is.
C14_ImportThenReimport ==
    [][/\ (/\ op' = "import" /\ WellFormedFile(arg')
           /\ PeriodsOf(PyList(ParsedItems(arg'))) \cap ExistingPeriods(data) = {})
          => ret' = Ret("pair", Len(arg'.rows), 0)
       /\ (/\ op = "import" /\ WellFormedFile(arg)
           /\ ret = Ret("pair", Len(arg.rows), 0)
           /\ arg' = arg)
          => (ret' = Ret("pair", 0, Len(arg.rows)) /\ data' = data)]_vars

\* the rows of the file that are well formed and whose period the store lacks
NewRows(file, d) ==
    { k \in 1..Len(file.rows) :
        /\ ~ReaderRaises(<<file.rows[k]>>)
        /\ ParseRow(file.rows[k]).ok
        /\ PyStr(ParseRow(file.rows[k]).item.period) \notin ExistingPeriods(d) }

\* C15: an import of a file that opens adds as many records as the file has
\* well-formed rows with a period the store lacks, whatever malformed rows
\* stand before or after them, and these periods are in the store afterwards.
C15_MalformedRowSkipped ==
    [][(op' = "import" /\ arg'.t = "rows")
       => /\ ret'.t = "pair"
          /\ ret'.a = Cardinality(NewRows(arg', data))
          /\ \A k \in NewRows(arg', data) :
                PyStr(ParseRow(arg'.rows[k]).item.period)
                    \in ExistingPeriods(data')]_vars

\* C16: an import of a file that cannot be opened returns (0, 0) and leaves
\* the records, the index and the snapshot as they were.
C16_UnopenableFile ==
    [][(op' = "import" /\ arg'.t = "unopenable")
       => /\ ret' = Ret("pair", 0, 0)
          /\ data' = data /\ stats' = stats /\ disk' = disk]_vars

\* a file that cannot be opened was given to a store that an earlier import
\* had filled and saved
C16_Witness ==
    /\ op = "import" /\ arg.t = "unopenable"
    /\ prev.made /\ prev.count > 0
    /\ data # <<>> /\ stats.set /\ disk.t = "file"
    /\ ret = Ret("pair", 0, 0)

\* the thread the update button started is inside fetch_all_history
SyncInProgress == ~btn_update /\ pc # "returned"

\* C17: in the host, no import runs on a DataManager while the sync started by
\* start_update_thread is in progress on it.
C17_SingleWriter == ~(SyncInProgress /\ gui = "import")

\* the list is in descending order of str(period)
IsSortedDesc(d) ==
    \A k \in 1..(Len(d) - 1) : ~StrLess(SortKey(d[k]), SortKey(d[k + 1]))

\* C18: when a sync that issued a fetch, or an import that parsed a row, has
\* returned, the records are in descending order of str(period).
C18_SortedStore ==
    (/\ pc = "returned" /\ ret.t \in {"count", "pair"}
     /\ \/ op = "sync" /\ fetched # <<>>
        \/ op = "import" /\ got # {})
    => IsSortedDesc(data)

\* a sync has fetched and returned a store of records with different keys
C18_Witness ==
    /\ pc = "returned" /\ op = "sync" /\ ret.t = "count"
    /\ fetched # <<>> /\ got # {}
    /\ Len(data) >= 2
    /\ StrLess(SortKey(data[2]), SortKey(data[1]))

RECURSIVE LatestDate(_)
\* the latest lotteryDate among the records (NoDate if none has a date)
LatestDate(d) ==
    IF d = <<>> THEN NoDate
    ELSE LET rest == LatestDate(Tail(d))
             here == IF Head(d).lotteryDate.t = "missing" THEN NoDate
                     ELSE StrpDate(Head(d).lotteryDate).dt
         IN  IF DateLess(rest, here) THEN here ELSE rest

\* C19: a backfill sync of a store whose records are dated starts the day
\* after the latest lotteryDate among all the records; a backfill sync of an
\* empty store starts at the profile's start_date.
C19_ResumePoint ==
    [][(/\ pc = "idle" /\ op' = "sync" /\ ~config.is_high_frequency
        /\ \A k \in 1..Len(data) : data[k].lotteryDate.t # "missing")
       => start' = IF data = <<>> THEN StrpMonth(config.start_date)
                   ELSE NextDay(LatestDate(data))]_vars

RECURSIVE DayParams(_, _, _)
\* the date parameters of the days dt, dt - 1, ... : n of them from the i-th
DayParams(dt, i, n) ==
    IF i >= n THEN <<>>
    ELSE <<DateParam(DaysBefore(dt, i))>> \o DayParams(dt, i + 1, n)

\* C20: a rolling-window sync that has ended has fetched keep_days times, by
\* date, for today, the day before, ... in that order, whatever the store
\* held and whatever the responses were.
C20_RollingWindowWalk ==
    (pc = "returned" /\ op = "sync" /\ config.is_high_frequency)
    => fetched = DayParams(today, 0, config.keep_days)

\* C21: in a sync each unit's progress callback comes before its request and
\* its request before the merge of its result, and all of it before the next
\* unit's callback: when a request is about to be issued, one callback more
\* than requests has been made and no result awaits its merge; while a
\* result awaits its merge, and between units, callbacks and requests are
\* equal in number; between units and at the end no result awaits its merge,
\* and in a rolling window the units completed are the callbacks made.
C21_PerUnitOrdering ==
    op = "sync" =>
        /\ pc = "fetch" => progress = Len(fetched) + 1 /\ arg = <<>>
        /\ pc = "merge" => progress = Len(fetched) /\ arg # <<>>
        /\ pc \in {"loop", "returned"} => progress = Len(fetched) /\ arg = <<>>
        /\ (pc = "loop" /\ config.is_high_frequency) => iday = progress

\* the second unit's result awaits its merge
C21_Witness ==
    /\ op = "sync"
    /\ pc = "merge"
    /\ Len(fetched) = 2
    /\ progress = 2
    /\ arg # <<>>

\* C22: a sync that has issued a request and an import that has parsed a row
\* run _finalize_data exactly once, at their end; a step of a sync that leaves
\* it in its loop writes no snapshot and recomputes no index.
C22_FinalizeOnce ==
    [][ /\ (op' = "sync" /\ pc' \in {"normal", "high_freq"})
             => (disk' = disk /\ stats' = stats /\ finalized' = <<>>)
        /\ (op' = "sync" /\ pc' = "returned" /\ fetched' # <<>>)
             => Len(finalized') = 1
        /\ (op' = "import" /\ pc' = "returned" /\ got' # {})
             => Len(finalized') = 1 ]_vars

\* C23: when a sync or an import has run _finalize_data and its write went
\* through, the snapshot file holds the in-memory list: the same records in
\* the same order, also after the truncation of a rolling window.
C23_SnapshotEqualsMemory ==
    (/\ pc = "returned"
     /\ op \in {"sync", "import"}
     /\ finalized # <<>>
     /\ finalized[Len(finalized)] = "written")
    => (disk = JsonDump(data) /\ JsonLoad(disk) = data)

\* a rolling-window sync has dropped a record it had fetched and has written
\* the rest
C23_Witness ==
    /\ pc = "returned"
    /\ op = "sync"
    /\ config.is_high_frequency
    /\ finalized = <<"written">>
    /\ Len(data) = Limit(config)
    /\ \E p \in got : p \notin ExistingPeriods(data)
    /\ disk = JsonDump(data)

\* the candidates a merge appends when each is looked up in the store as it
\* stands at its turn
RECURSIVE AppendedInTurn(_, _)
AppendedInTurn(d, items) ==
    IF items = <<>> THEN <<>>
    ELSE IF PyStr(Head(items).period) \in ExistingPeriods(d)
    THEN AppendedInTurn(d, Tail(items))
    ELSE <<Head(items)>> \o AppendedInTurn(Append(d, Head(items)), Tail(items))

\* C24: a merge keeps the records of the store as they are and where they
\* are, and appends, in candidate order, the candidates whose str(period) is
\* not yet in the store when their turn comes; a candidate whose period is
\* there is dropped; the count returned is the number appended, 0 for an empty
\* batch, which changes nothing.
C24_MergeAppendOnly ==
    [][ /\ Len(data') >= Len(data)
        /\ SubSeq(data', 1, Len(data)) = data
        /\ SubSeq(data', Len(data) + 1, Len(data')) = AppendedInTurn(data, arg')
        /\ ret'.a = Len(data') - Len(data)
        /\ arg' = <<>> => (data' = data /\ ret'.a = 0) ]_vars

\* C25: the skipped count of an import covers the rows skipped for a row-level
\* error, so that added + skipped is the number of data rows of the file.
C25_SkippedCoversBadRows ==
    (op = "import" /\ arg.t = "rows" /\ ~ReaderRaises(arg.rows))
    => ret.a + ret.b = Len(arg.rows)

\* C26: a rolling-window store with keep_days = d holds at most d * 210
\* records after every completed operation, sync or import.
C26_RetentionBoundsGrowth ==
    (/\ config.is_high_frequency
     /\ pc = "returned"
     /\ op \in {"sync", "import"}
     /\ ret.t # "raised")
    => Len(data) <= Limit(config)

\* a record of d that e holds fewer times, or a period of d that e has not
Lost(d, e) ==
    \/ \E x \in Records(d) : Occurrences(x, e) < Occurrences(x, d)
    \/ ~(ExistingPeriods(d) \subseteq ExistingPeriods(e))

\* C27: no step of a backfill sync or of an import removes a record or a
\* period from the store; the one step of a sync or import that does is the
\* end of a rolling-window sync whose store is over the limit, which cuts it to
\* the limit.
C27_NoLossOutsideRetention ==
    [][ (op' \in {"sync", "import"} /\ Lost(data, data'))
        => /\ config.is_high_frequency
           /\ op' = "sync"
           /\ pc = "high_freq" /\ pc' = "returned"
           /\ Len(data) > Limit(config)
           /\ Len(data') = Limit(config) ]_vars

\* a backfill sync has returned with a record it fetched next to one the
\* store held before
C27_Witness ==
    /\ pc = "returned"
    /\ op = "sync"
    /\ ~config.is_high_frequency
    /\ ret.t = "count"
    /\ \E p \in ExistingPeriods(data) : p \notin got
    /\ \E q \in got : q \in ExistingPeriods(data)

\* C28: an import that parses at least one row returns added and skipped with
\* added + skipped the number of rows parsed into records, and the store has
\* grown by added records; an import that parses no row returns (0, 0) and
\* does not run _finalize_data.
C28_ImportAccounting ==
    [][ op' = "import" =>
          LET parsed == IF arg'.t = "unopenable" \/ ReaderRaises(arg'.rows)
                        THEN <<>> ELSE ParseRows(arg'.rows)
          IN  IF parsed # <<>>
              THEN /\ ret'.a + ret'.b = Len(parsed)
                   /\ Len(data') = Len(data) + ret'.a
              ELSE /\ ret' = Ret("pair", 0, 0)
                   /\ finalized' = <<>>
                   /\ UNCHANGED <<data, disk, stats>> ]_vars

====
